---- MODULE Spec2Model ----
(***************************************************************************)
(* A model of qutepart/Syntax.py: the loader of a Kate syntax definition   *)
(* (Syntax.__init__), the rule matchers (tryMatch of each rule class), the *)
(* context-operation algebra (_generateNextContextStack) and the line      *)
(* tokenizer (parseBlock / _parseBlockWithContextStack).                   *)
(*                                                                         *)
(* Python strings are modelled as sequences of one-character strings, so   *)
(* that startswith, slicing and lower() are computed and not assumed.      *)
(* An optional value (None or x) is modelled as <<>> or <<x>>.             *)
(***************************************************************************)
EXTENDS Integers, Sequences, FiniteSets, TLC

\* ------------------------------------------------------------------ bounds

\* Longest generated line of the general specification.
MaxLen == 3
\* Number of lines fed to parseBlock one after the other.
MaxLines == 2
\* Segments of length 0 that one parseBlock call is followed through: a grammar
\* with an empty literal can switch contexts for ever without advancing.
MaxSpin == 2

\* ------------------------------------------------------- python primitives

None == <<>>
Some(x) == <<x>>
IsNone(o) == o = <<>>
Val(o) == o[1]

\* text.startswith(prefix)
StartsWith(text, prefix) ==
    /\ Len(prefix) <= Len(text)
    /\ \A i \in 1..Len(prefix) : text[i] = prefix[i]

\* text[n:]  (n is a 0-based python index, 0 <= n)
Slice(text, n) ==
    IF n >= Len(text) THEN <<>>
    ELSE [i \in 1..(Len(text) - n) |-> text[i + n]]

\* stack[:-1]; python gives [] for the empty list as well
DropLast(stack) ==
    IF Len(stack) = 0 THEN <<>>
    ELSE [i \in 1..(Len(stack) - 1) |-> stack[i]]

UpperCase == <<"A","B","C","D","E","F","G","H","I","J","K","L","M",
               "N","O","P","Q","R","S","T","U","V","W","X","Y","Z">>
LowerCase == <<"a","b","c","d","e","f","g","h","i","j","k","l","m",
               "n","o","p","q","r","s","t","u","v","w","x","y","z">>

\* str.lower() of one character
LowerChar(c) ==
    IF \E i \in 1..26 : UpperCase[i] = c
    THEN LowerCase[CHOOSE i \in 1..26 : UpperCase[i] = c]
    ELSE c

\* str.lower()
Lower(text) == [i \in 1..Len(text) |-> LowerChar(text[i])]

\* The value python stores for an attribute: the bool True or a str.
PyTrue == [type |-> "bool", val |-> "True"]
PyStr(s) == [type |-> "str", val |-> s]

\* bool(v): a str is false only when empty
Truthy(v) == IF v.type = "bool" THEN v.val = "True" ELSE v.val # ""

\* ------------------------------------------------------------ string names

S_default == <<"d","e","f","a","u","l","t">>
S_string == <<"s","t","r","i","n","g">>
S_nosuch == <<"n","o","s","u","c","h">>
S_pop == <<"#","p","o","p">>
S_stay == <<"#","s","t","a","y">>
S_empty == <<>>
S_kw == <<"k","w">>
S_int == <<"i","n","t">>
S_in == <<"i","n">>
S_intx == <<"i","n","t","x">>
S_float == <<"f","l","o","a","t">>
S_INT_x == <<"I","N","T"," ","x">>
S_quoteLine == <<"H","e"," ","s","a","i","d"," ","\"","h","i","\""," ","t","o","d","a","y">>

\* The rule classes which are declared with `pass`.
PassKinds == {"AnyChar", "WordDetect", "Int", "Float", "HlCOct", "HlCHex",
              "HlCStringChar", "HlCChar", "RangeDetect", "LineContinue",
              "IncludeRules", "DetectSpaces", "DetectIdentifier"}

\* A rule element: its tag, its char / char+char1 / String attribute, its
\* context attribute (optional) and its column attribute (optional); the
\* insensitive attribute is absent.
Rule(kind, string, context, column) ==
    [kind |-> kind, string |-> string, contextOperation |-> context, column |-> column,
     insensitive |-> None]

\* A RegExpr element: its String attribute, a pattern of plain letters, and its
\* insensitive attribute (optional).
RegExprRule(string, insensitive) ==
    [kind |-> "RegExpr", string |-> string, contextOperation |-> None, column |-> None,
     insensitive |-> insensitive]

\* A context element.
Context(name, lineEndContext, rules) ==
    [name |-> name, lineEndContext |-> lineEndContext, rules |-> rules]

\* ------------------------------------------------------------------ loader

\* Syntax.__init__: casesensitive is True unless the root element carries the
\* attribute, and then it is the attribute's text (setattr(self, key, value)).
LoadCaseSensitive(xml) ==
    IF IsNone(xml.casesensitive) THEN PyTrue ELSE PyStr(Val(xml.casesensitive))

\* The loop "Make all keywords lowercase, if syntax is not case sensetive":
\* it walks self.lists.items(), i.e. (name, items) tuples, and assigns into the
\* tuple, which raises TypeError as soon as there is one list.
LowercaseListsRaises(casesensitive, lists) ==
    /\ ~Truthy(casesensitive)
    /\ DOMAIN lists # {}

\* The Syntax object after __init__, or the exception __init__ raised.
SyntaxInit(xml) ==
    LET casesensitive == LoadCaseSensitive(xml) IN
    IF LowercaseListsRaises(casesensitive, xml.lists)
    THEN [raised |-> Some("TypeError"),
          casesensitive |-> casesensitive,
          lists |-> xml.lists,
          contexts |-> <<>>,
          defaultContext |-> None]
    ELSE [raised |-> None,
          casesensitive |-> casesensitive,
          lists |-> xml.lists,
          contexts |-> xml.contexts,
          defaultContext |-> Some(xml.contexts[1].name)]

\* A slip of the lookup: every name is taken for the name of a context.
HasContextAlways(syntax, name) == TRUE

\* name in self.contexts
HasContext(syntax, name) ==
    \E i \in 1..Len(syntax.contexts) : syntax.contexts[i].name = name

\* self.contexts[name]: a later context of the same name replaces an earlier one
ContextByName(syntax, name) ==
    LET idx == {i \in 1..Len(syntax.contexts) : syntax.contexts[i].name = name}
    IN  syntax.contexts[CHOOSE i \in idx : \A j \in idx : j <= i]

\* ----------------------------------------------------------- rule matching

\* What a call returns: a value, or the exception it raised.
Returned(v) == [raised |-> None, value |-> v]
Raised(e) == [raised |-> Some(e), value |-> None]
HasRaised(r) == ~IsNone(r.raised)

\* A slip of DetectChar.tryMatch: the last character of the text is compared.
DetectCharTryMatchLast(rule, text) ==
    IF <<text[Len(text)]>> = rule.string THEN Some(1) ELSE None

\* DetectChar.tryMatch: text[0] == self._char
DetectCharTryMatch(rule, text) ==
    IF <<text[1]>> = rule.string THEN Some(1) ELSE None

\* Detect2Chars.tryMatch and StringDetect.tryMatch
StartsWithTryMatch(rule, text) ==
    IF StartsWith(text, rule.string) THEN Some(Len(rule.string)) ELSE None

\* A slip of keyword.tryMatch: the longest word of the list that is a prefix wins.
KeywordTryMatchLongest(syntax, rule, text) ==
    LET folded == IF ~Truthy(syntax.casesensitive) THEN Lower(text) ELSE text
        words == syntax.lists[rule.string]
        hits == {i \in 1..Len(words) : StartsWith(folded, words[i])}
    IN  IF hits = {} THEN None
        ELSE Some(Len(words[CHOOSE i \in hits :
                                \A j \in hits : Len(words[j]) <= Len(words[i])]))

\* keyword.tryMatch: the text is lowercased when the syntax is not case
\* sensitive; the first word of the list, in list order, that is a prefix wins.
KeywordTryMatch(syntax, rule, text) ==
    LET folded == IF ~Truthy(syntax.casesensitive) THEN Lower(text) ELSE text
        words == syntax.lists[rule.string]
        hits == {i \in 1..Len(words) : StartsWith(folded, words[i])}
    IN  IF hits = {} THEN None
        ELSE Some(Len(words[CHOOSE i \in hits : \A j \in hits : i <= j]))

\* RegExpr.__init__: "flags = 0; if insensitive: flags = re.IGNORECASE", where
\* insensitive is the attribute's text, or False when the attribute is absent.
RegExprFlags(rule) ==
    IF ~IsNone(rule.insensitive) /\ Val(rule.insensitive) # ""
    THEN {"IGNORECASE"} ELSE {}

\* re.compile(pattern, flags) for a pattern of plain letters.
ReCompile(pattern, flags) == [pattern |-> pattern, flags |-> flags]

\* self._regExp of RegExpr.__init__: re.compile(string), the flags computed
\* above are not among its arguments. _processCraracterCodes leaves a pattern
\* without \0ddd codes as it is.
RegExp(rule) == ReCompile(rule.string, {})

\* What the letters are compared as by a pattern of plain letters: lowercased
\* under IGNORECASE.
ReFold(flags, string) ==
    IF "IGNORECASE" \in flags THEN Lower(string) ELSE string

\* regExp.match(text) for a pattern of plain letters: group(0), the start of the
\* text as long as the pattern, when the text starts with the pattern, letter
\* case ignored under IGNORECASE; None otherwise.
ReMatch(regExp, text) ==
    IF StartsWith(ReFold(regExp.flags, text), ReFold(regExp.flags, regExp.pattern))
    THEN Some(SubSeq(text, 1, Len(regExp.pattern)))
    ELSE None

\* "if match is not None and match.group(0): return len(match.group(0))",
\* and None otherwise.
GroupLength(match) ==
    IF ~IsNone(match) /\ Val(match) # <<>> THEN Some(Len(Val(match))) ELSE None

\* RegExpr.tryMatch
RegExprTryMatch(rule, text) == GroupLength(ReMatch(RegExp(rule), text))

\* rule.tryMatch(text), dispatched on the rule class. The classes declared with
\* `pass` inherit AbstractRule.tryMatch, whose body `raise NotImplementedFault()`
\* names nothing that is defined: the call raises NameError.
TryMatch(syntax, rule, text) ==
    CASE rule.kind = "DetectChar" -> Returned(DetectCharTryMatch(rule, text))
      [] rule.kind \in {"Detect2Chars", "StringDetect"} ->
            Returned(StartsWithTryMatch(rule, text))
      [] rule.kind = "keyword" ->
            IF rule.string \in DOMAIN syntax.lists
            THEN Returned(KeywordTryMatch(syntax, rule, text))
            ELSE Raised("KeyError")
      [] rule.kind = "RegExpr" -> Returned(RegExprTryMatch(rule, text))
      [] OTHER -> Raised("NameError")

\* ------------------------------------------------- context-operation algebra

\* A slip of the pop: one context is removed and the rest of the operation is
\* not looked at.
GenerateNextContextStackOnePop(syntax, currentStack, operation) ==
    IF operation = S_empty THEN Returned(currentStack)
    ELSE IF operation = S_stay THEN Returned(currentStack)
    ELSE IF StartsWith(operation, S_pop) THEN Returned(DropLast(currentStack))
    ELSE IF HasContext(syntax, operation)
         THEN Returned(Append(currentStack, operation))
         ELSE Raised("KeyError")

\* Syntax._generateNextContextStack
RECURSIVE GenerateNextContextStack(_, _, _)
GenerateNextContextStack(syntax, currentStack, operation) ==
    IF operation = S_empty THEN Returned(currentStack)
    ELSE IF operation = S_stay THEN Returned(currentStack)
    ELSE IF StartsWith(operation, S_pop)
         THEN GenerateNextContextStack(syntax, DropLast(currentStack),
                                       Slice(operation, Len(S_pop)))
    ELSE IF HasContext(syntax, operation)
         THEN Returned(Append(currentStack, operation))
         ELSE Raised("KeyError")

\* A slip of the push: currentStack.append(...) adds to the list passed in.
ArgumentAfterAppend(syntax, currentStack, operation) ==
    IF /\ operation # S_empty
       /\ operation # S_stay
       /\ ~StartsWith(operation, S_pop)
       /\ HasContext(syntax, operation)
    THEN Append(currentStack, operation)
    ELSE currentStack

\* The list object passed as currentStack, after _generateNextContextStack has
\* returned or raised: the function has no statement that writes to it, the pop
\* slices it (currentStack[:-1]) and the push concatenates (currentStack + [..]),
\* "no .append, shall not modify current stack".
ArgumentAfter(syntax, currentStack, operation) == currentStack

\* ------------------------------------------------------------ the tokenizer

\* stack[-1]
Top(stack) == stack[Len(stack)]

\* A slip of the column test: the column attribute is taken to count from 1.
ColumnMismatchOneBased(rule, currentColumnIndex) ==
    /\ ~IsNone(rule.column)
    /\ Val(rule.column) # currentColumnIndex + 1

\* "Skip if column doesn't match":
\* rule.column is not None and rule.column != currentColumnIndex
ColumnMismatch(rule, currentColumnIndex) ==
    /\ ~IsNone(rule.column)
    /\ Val(rule.column) # currentColumnIndex

\* A slip of the test that ends the scan: any context operation ends it.
StackDiffersAlways(newContextStack, contextStack) == TRUE

\* newContextStack != contextStack: python compares the two lists element by
\* element; the elements are the context objects of self.contexts.
StackDiffers(newContextStack, contextStack) == newContextStack # contextStack

\* A reference to the rule object rules[index] of a context.
RuleRef(contextName, index) == [context |-> contextName, index |-> index]
RuleOf(syntax, ref) == ContextByName(syntax, ref.context).rules[ref.index]

\* A slip of the for loop: it runs on after a match and the last rule that
\* matches is the one taken.
LastStop(syntax, rules, currentColumnIndex, text) ==
    LET rest == Slice(text, currentColumnIndex)
        stops == {i \in 1..Len(rules) :
                    /\ ~ColumnMismatch(rules[i], currentColumnIndex)
                    /\ LET r == TryMatch(syntax, rules[i], rest)
                       IN  HasRaised(r) \/ ~IsNone(r.value)}
    IN  IF stops = {} THEN 0 ELSE CHOOSE i \in stops : \A j \in stops : j <= i

\* The for loop over currentContext.rules at one column: the index of the first
\* rule, in declaration order, that is not skipped and whose tryMatch returns a
\* count or raises; 0 when the loop runs to its end.
FirstStop(syntax, rules, currentColumnIndex, text) ==
    LET rest == Slice(text, currentColumnIndex)
        stops == {i \in 1..Len(rules) :
                    /\ ~ColumnMismatch(rules[i], currentColumnIndex)
                    /\ LET r == TryMatch(syntax, rules[i], rest)
                       IN  HasRaised(r) \/ ~IsNone(r.value)}
    IN  IF stops = {} THEN 0 ELSE CHOOSE i \in stops : \A j \in stops : i <= j

\* What one iteration of the while loop of _parseBlockWithContextStack does.
Iteration(raised, returns, matched, column, stack) ==
    [raised |-> raised, returns |-> returns, matched |-> matched,
     currentColumnIndex |-> column, newContextStack |-> stack]

\* One iteration of "while currentColumnIndex < len(text)" of
\* _parseBlockWithContextStack: the for loop, and then, unless the function
\* returned from inside it, the unconditional "currentColumnIndex += 1".
ScanIteration(syntax, contextStack, currentColumnIndex, text) ==
    LET name == Top(contextStack)
        rules == ContextByName(syntax, name).rules
        i == FirstStop(syntax, rules, currentColumnIndex, text)
    IN  IF i = 0
        THEN Iteration(None, FALSE, None, currentColumnIndex + 1, contextStack)
        ELSE
        LET r == TryMatch(syntax, rules[i], Slice(text, currentColumnIndex)) IN
        IF HasRaised(r)
        THEN Iteration(r.raised, FALSE, None, currentColumnIndex, contextStack)
        ELSE
        LET count == Val(r.value)
            m == Some([rule |-> RuleRef(name, i), pos |-> currentColumnIndex,
                       length |-> count])
            after == currentColumnIndex + count
        IN  IF IsNone(rules[i].contextOperation)
            THEN Iteration(None, FALSE, m, after + 1, contextStack)
            ELSE
            LET g == GenerateNextContextStack(syntax, contextStack,
                                              Val(rules[i].contextOperation))
            IN  IF HasRaised(g)
                THEN Iteration(g.raised, FALSE, m, after, contextStack)
                ELSE IF StackDiffers(g.value, contextStack)
                THEN Iteration(None, TRUE, m, after, g.value)
                ELSE Iteration(None, FALSE, m, after + 1, contextStack)

\* After the while loop: contextStack[-1].lineEndContext is applied.
LineEndStack(syntax, contextStack) ==
    GenerateNextContextStack(syntax, contextStack,
                             ContextByName(syntax, Top(contextStack)).lineEndContext)

\* ------------------------------------------------------------------- state

VARIABLES
    xml,                \* the syntax definition handed to Syntax.__init__
    lines,              \* the lines the host may feed to parseBlock
    syntax,             \* the Syntax object
    pc,                 \* where the program is
    raised,             \* the exception that ended a call, or None
    lineNo,             \* how many parseBlock calls were started
    quotesSeen,         \* history: '"' characters in the lines fed so far
    text,               \* parseBlock: text
    prevLineData,       \* parseBlock: prevLineData
    contextStack,       \* parseBlock: contextStack
    matchedContexts,    \* parseBlock: matchedContexts
    currentColumnIndex, \* parseBlock: currentColumnIndex
    startColumnIndex,   \* _parseBlockWithContextStack: startColumnIndex
    scanColumnIndex,    \* _parseBlockWithContextStack: currentColumnIndex
    matchedRules,       \* _parseBlockWithContextStack: matchedRules
    lineData,           \* the stack the last parseBlock call returned
    reparsing,          \* host: the call under way repeats the previous call
    cached              \* host: what the call that is repeated returned

vars == <<xml, lines, syntax, pc, raised, lineNo, quotesSeen, text, prevLineData,
          contextStack, matchedContexts, currentColumnIndex, startColumnIndex,
          scanColumnIndex, matchedRules, lineData, reparsing, cached>>

parseVars == <<text, prevLineData, contextStack, matchedContexts, currentColumnIndex>>
loopVars == <<text, contextStack, matchedContexts, currentColumnIndex>>
scanVars == <<startColumnIndex, scanColumnIndex, matchedRules>>
hostVars == <<reparsing, cached>>

\* -------------------------------------------------------------- the inputs

NoLists == [n \in {} |-> <<>>]

Xml(casesensitive, lists, contexts) ==
    [casesensitive |-> casesensitive, lists |-> lists, contexts |-> contexts]

\* All texts over an alphabet up to a length.
RECURSIVE TextsUpTo(_, _)
TextsUpTo(alphabet, n) ==
    IF n = 0 THEN {<<>>}
    ELSE LET shorter == TextsUpTo(alphabet, n - 1)
         IN  shorter \cup {Append(t, c) : t \in shorter, c \in alphabet}

\* The rules a generated "default" context is made of.
OperationsOfA == {None, Some(S_empty), Some(S_stay), Some(S_pop), Some(S_string),
                  Some(S_pop \o S_default), Some(S_nosuch)}
RulesOfA == {Rule("DetectChar", <<"a">>, op, None) : op \in OperationsOfA}
ColumnRules == {Rule("DetectChar", <<"a">>, op, Some(k)) :
                    op \in {None, Some(S_string)}, k \in {0, 1}}
StringRules == {Rule("StringDetect", s, op, None) :
                    s \in {<<"a","b">>, <<>>}, op \in {None, Some(S_string)}}
PassRules == {Rule("Int", <<>>, None, None)}
SecondRules == {Rule("DetectChar", <<"b">>, None, None),
                Rule("DetectChar", <<"a">>, Some(S_string), None),
                Rule("Detect2Chars", <<"a","b">>, None, None)}
DefaultRuleLists ==
    {<<>>}
    \cup {<<r>> : r \in RulesOfA \cup ColumnRules \cup StringRules \cup PassRules
                         \cup SecondRules}
    \cup {<<r, q>> : r \in PassRules \cup SecondRules, q \in SecondRules \cup PassRules}

\* The rules a generated "string" context is made of.
StringRuleLists ==
    {<<>>,
     <<Rule("DetectChar", <<"a">>, Some(S_pop), None)>>,
     <<Rule("DetectChar", <<"b">>, Some(S_pop \o S_string), None)>>,
     <<Rule("DetectChar", <<"a">>, None, Some(1))>>}

\* Generated syntax definitions: contexts "default" (the first) and "string".
GeneratedXml ==
    {Xml(None, NoLists,
         <<Context(S_default, e1, r1), Context(S_string, e2, r2)>>) :
        r1 \in DefaultRuleLists, r2 \in StringRuleLists,
        e1 \in {S_stay, S_pop}, e2 \in {S_stay, S_pop}}
GeneratedLines == TextsUpTo({"a", "b"}, MaxLen)

\* The quote scenario: '"' pushes "string" in "default" and pops in "string".
QuoteXml ==
    Xml(None, NoLists,
        <<Context(S_default, S_stay,
                  <<Rule("DetectChar", <<"\"">>, Some(S_string), None)>>),
          Context(S_string, S_stay,
                  <<Rule("DetectChar", <<"\"">>, Some(S_pop), None)>>)>>)
QuoteLines == TextsUpTo({"\"", "h"}, MaxLen) \cup {S_quoteLine}

\* The keyword scenario: one keyword rule over the list ["int", "float"], and
\* the root attribute casesensitive absent or given.
KeywordXml ==
    {Xml(cs, [n \in {S_kw} |-> <<S_int, S_float>>],
         <<Context(S_default, S_stay, <<Rule("keyword", S_kw, None, None)>>)>>) :
        cs \in {None, Some("1"), Some("true"), Some("0"), Some("false"), Some("")}}
KeywordLines == {S_INT_x, Lower(S_INT_x), S_float, <<"F","l","o","a","t">>,
                 <<"x"," ","I","N","T">>, <<"i","n">>}

\* The unknown-context scenario: "string" has a rule that names a context the
\* definition does not declare, and "default" may name it as its lineEndContext.
UnknownXml ==
    {Xml(None, NoLists,
         <<Context(S_default, e1,
                   <<Rule("DetectChar", <<"a">>, Some(S_string), None)>>),
           Context(S_string, S_stay,
                   <<Rule("DetectChar", <<"b">>, Some(S_nosuch), None)>>)>>) :
        e1 \in {S_stay, S_nosuch}}

\* The keyword-order scenario: the list holds "in" and "int", in either order.
KeywordOrderXml ==
    {Xml(None, [n \in {S_kw} |-> words],
         <<Context(S_default, S_stay, <<Rule("keyword", S_kw, None, None)>>)>>) :
        words \in {<<S_in, S_int>>, <<S_int, S_in>>}}
KeywordOrderLines == {S_intx, S_int, S_in, <<"x">>, <<"i">>, <<"x","i","n","t">>}

\* The regular-expression scenario: one RegExpr rule with the pattern "ab" and
\* the insensitive attribute absent or given.
RegExprXml ==
    {Xml(None, NoLists,
         <<Context(S_default, S_stay, <<RegExprRule(<<"a","b">>, ins)>>)>>) :
        ins \in {None, Some("true"), Some("1"), Some("")}}
RegExprLines == {<<"a","b">>, <<"A","B">>, <<"A","b">>, <<"x","a","b">>, <<"x","A","B">>}

\* The compound-pop scenario: 'a' pushes "string" in both contexts, and 'b' in
\* "string" applies an operation that starts with "#pop".
PopOperations == {S_pop, S_pop \o S_pop, S_pop \o S_default, S_pop \o S_pop \o S_string}
PopXml ==
    {Xml(None, NoLists,
         <<Context(S_default, S_stay,
                   <<Rule("DetectChar", <<"a">>, Some(S_string), None)>>),
           Context(S_string, S_stay,
                   <<Rule("DetectChar", <<"a">>, Some(S_string), None),
                     Rule("DetectChar", <<"b">>, Some(op), None)>>)>>) :
        op \in PopOperations}

Scenarios == {[xmls |-> GeneratedXml, lines |-> GeneratedLines],
              [xmls |-> PopXml, lines |-> GeneratedLines],
              [xmls |-> RegExprXml, lines |-> RegExprLines],
              [xmls |-> KeywordOrderXml, lines |-> KeywordOrderLines],
              [xmls |-> UnknownXml, lines |-> GeneratedLines],
              [xmls |-> {QuoteXml}, lines |-> QuoteLines],
              [xmls |-> KeywordXml, lines |-> KeywordLines]}

CountOf(t, c) == Cardinality({i \in 1..Len(t) : t[i] = c})

\* ----------------------------------------------------------------- actions

self == Val(syntax)

\* A slip of the start of parseBlock: without a stack passed in, the parser goes
\* on from the stack its last call returned.
StartStackKeepsLast(syn, prev) ==
    IF ~IsNone(prev) THEN Val(prev)
    ELSE IF pc = "done" THEN lineData
    ELSE <<Val(syn.defaultContext)>>

\* The start of parseBlock: contextStack is prevLineData, or [self.defaultContext]
\* when prevLineData is None.
StartStack(syn, prev) ==
    IF ~IsNone(prev) THEN Val(prev) ELSE <<Val(syn.defaultContext)>>

Init ==
    /\ \E s \in Scenarios : xml \in s.xmls /\ lines = s.lines
    /\ syntax = None
    /\ pc = "new"
    /\ raised = None
    /\ lineNo = 0
    /\ quotesSeen = 0
    /\ text = <<>>
    /\ prevLineData = None
    /\ contextStack = <<>>
    /\ matchedContexts = <<>>
    /\ currentColumnIndex = 0
    /\ startColumnIndex = 0
    /\ scanColumnIndex = 0
    /\ matchedRules = <<>>
    /\ lineData = <<>>
    /\ reparsing = FALSE
    /\ cached = None

\* Syntax(fileName)
Load ==
    /\ pc = "new"
    /\ syntax' = Some(SyntaxInit(xml))
    /\ raised' = SyntaxInit(xml).raised
    /\ pc' = IF HasRaised(SyntaxInit(xml)) THEN "raised" ELSE "idle"
    /\ UNCHANGED <<xml, lines, lineNo, quotesSeen, lineData>>
    /\ UNCHANGED parseVars
    /\ UNCHANGED scanVars
    /\ UNCHANGED hostVars

\* parseBlock(text, prevLineData) is called: with None for the first line, and
\* with the stack the previous call returned for the next ones.
ParseBlock ==
    /\ pc \in {"idle", "done"}
    /\ lineNo < MaxLines
    /\ \E t \in lines :
        /\ text' = t
        /\ quotesSeen' = quotesSeen + CountOf(t, "\"")
    /\ prevLineData' = IF pc = "idle" THEN None ELSE Some(lineData)
    /\ contextStack' = StartStack(self, prevLineData')
    /\ matchedContexts' = <<>>
    /\ currentColumnIndex' = 0
    /\ lineNo' = lineNo + 1
    /\ pc' = "parseBlock"
    /\ reparsing' = FALSE
    /\ cached' = None
    /\ UNCHANGED <<xml, lines, syntax, raised, lineData>>
    /\ UNCHANGED scanVars

\* The host calls parseBlock again with the text and the stack of the call that
\* has just returned, as it does when it parses a line again from the stack it
\* cached for the line before.
Reparse ==
    /\ pc = "done"
    /\ ~reparsing
    /\ reparsing' = TRUE
    /\ cached' = Some([lineData |-> lineData, matchedContexts |-> matchedContexts])
    /\ contextStack' = StartStack(self, prevLineData)
    /\ matchedContexts' = <<>>
    /\ currentColumnIndex' = 0
    /\ pc' = "parseBlock"
    /\ UNCHANGED <<xml, lines, syntax, raised, lineNo, quotesSeen, lineData,
                   text, prevLineData>>
    /\ UNCHANGED scanVars

\* "while currentColumnIndex < len(text)" of parseBlock holds:
\* _parseBlockWithContextStack is entered, up to its while loop.
EnterScan ==
    /\ pc = "parseBlock"
    /\ currentColumnIndex < Len(text)
    /\ Len(matchedContexts) < Len(text) + MaxSpin
    /\ IF contextStack = <<>>
       THEN /\ pc' = "raised"
            /\ raised' = Some("IndexError")
            /\ UNCHANGED scanVars
       ELSE /\ pc' = "scan"
            /\ raised' = raised
            /\ startColumnIndex' = currentColumnIndex
            /\ scanColumnIndex' = currentColumnIndex
            /\ matchedRules' = <<>>
    /\ UNCHANGED <<xml, lines, syntax, lineNo, quotesSeen, lineData>>
    /\ UNCHANGED hostVars
    /\ UNCHANGED parseVars

\* A slip of the loop of parseBlock: the stack is taken before the segment is
\* appended, so that the segment is filed under the context switched to.
ReturnToParseBlockUnderNewContext(length, newContextStack, rules) ==
    /\ matchedContexts' =
          Append(matchedContexts,
                 [context |-> IF newContextStack = <<>> THEN Top(contextStack)
                              ELSE Top(newContextStack),
                  length |-> length,
                  matchedRules |-> rules])
    /\ contextStack' = newContextStack
    /\ currentColumnIndex' = currentColumnIndex + length
    /\ pc' = "parseBlock"
    /\ raised' = raised
    /\ text' = text

\* _parseBlockWithContextStack returns (length, newContextStack, matchedRules) and
\* parseBlock appends the segment, takes the stack and adds the length.
ReturnToParseBlock(length, newContextStack, rules) ==
    /\ matchedContexts' =
          Append(matchedContexts,
                 [context |-> Top(contextStack), length |-> length,
                  matchedRules |-> rules])
    /\ contextStack' = newContextStack
    /\ currentColumnIndex' = currentColumnIndex + length
    /\ pc' = "parseBlock"
    /\ raised' = raised
    /\ text' = text

\* contextStack of parseBlock is the list object the caller passed in: it is
\* that object from "contextStack = prevLineData" until a segment returns, and a
\* segment that returns the object itself has reached the end of the text.
HoldsCallersList == ~IsNone(prevLineData) /\ matchedContexts = <<>>

\* The caller's list after the step that applies an operation, if it applies one.
CallersListAfter(operation) ==
    IF HoldsCallersList /\ ~IsNone(operation)
    THEN Some(ArgumentAfter(self, contextStack, Val(operation)))
    ELSE prevLineData

\* One iteration of the while loop of _parseBlockWithContextStack.
Scan ==
    /\ pc = "scan"
    /\ scanColumnIndex < Len(text)
    /\ LET it == ScanIteration(self, contextStack, scanColumnIndex, text)
           rules == IF IsNone(it.matched) THEN matchedRules
                    ELSE Append(matchedRules, Val(it.matched))
           applied == IF IsNone(it.matched) THEN None
                      ELSE RuleOf(self, Val(it.matched).rule).contextOperation
       IN  /\ matchedRules' = rules
           /\ scanColumnIndex' = it.currentColumnIndex
           /\ startColumnIndex' = startColumnIndex
           /\ prevLineData' = CallersListAfter(applied)
           /\ IF ~IsNone(it.raised)
              THEN /\ pc' = "raised"
                   /\ raised' = it.raised
                   /\ UNCHANGED loopVars
              ELSE IF it.returns
              THEN ReturnToParseBlock(it.currentColumnIndex - startColumnIndex,
                                      it.newContextStack, rules)
              ELSE /\ pc' = "scan"
                   /\ raised' = raised
                   /\ UNCHANGED loopVars
    /\ UNCHANGED <<xml, lines, syntax, lineNo, quotesSeen, lineData>>
    /\ UNCHANGED hostVars

\* The while loop of _parseBlockWithContextStack is over: the lineEndContext of
\* the context on top is applied and the function returns.
LineEnd ==
    /\ pc = "scan"
    /\ scanColumnIndex >= Len(text)
    /\ prevLineData' =
          CallersListAfter(Some(ContextByName(self, Top(contextStack)).lineEndContext))
    /\ LET g == LineEndStack(self, contextStack)
       IN  IF HasRaised(g)
           THEN /\ pc' = "raised"
                /\ raised' = g.raised
                /\ UNCHANGED loopVars
           ELSE ReturnToParseBlock(scanColumnIndex - startColumnIndex, g.value,
                                   matchedRules)
    /\ UNCHANGED <<xml, lines, syntax, lineNo, quotesSeen, lineData>>
    /\ UNCHANGED hostVars
    /\ UNCHANGED scanVars

\* A slip of the end of parseBlock: the lineEndContext of the context on top is
\* applied once more before the stack is returned.
ParseBlockReturnAppliesLineEnd ==
    /\ pc = "parseBlock"
    /\ currentColumnIndex >= Len(text)
    /\ contextStack # <<>>
    /\ ~HasRaised(LineEndStack(self, contextStack))
    /\ lineData' = LineEndStack(self, contextStack).value
    /\ pc' = "done"
    /\ UNCHANGED <<xml, lines, syntax, raised, lineNo, quotesSeen>>
    /\ UNCHANGED hostVars
    /\ UNCHANGED parseVars
    /\ UNCHANGED scanVars

\* The while loop of parseBlock is over: return contextStack, matchedContexts.
ParseBlockReturn ==
    /\ pc = "parseBlock"
    /\ currentColumnIndex >= Len(text)
    /\ lineData' = contextStack
    /\ pc' = "done"
    /\ UNCHANGED <<xml, lines, syntax, raised, lineNo, quotesSeen>>
    /\ UNCHANGED hostVars
    /\ UNCHANGED parseVars
    /\ UNCHANGED scanVars

Next ==
    \/ Load
    \/ ParseBlock
    \/ Reparse
    \/ EnterScan
    \/ Scan
    \/ LineEnd
    \/ ParseBlockReturn

Spec == Init /\ [][Next]_vars

\* ------------------------------------------------------------------ claims

\* The step the program takes next from a state inside the while loop of
\* _parseBlockWithContextStack, and the rule that step matches.
Scanning == pc = "scan" /\ scanColumnIndex < Len(text)
AtLineEnd == pc = "scan" /\ scanColumnIndex >= Len(text)
NextIteration == ScanIteration(self, contextStack, scanColumnIndex, text)
NextMatches == Scanning /\ ~IsNone(NextIteration.matched)
NextRule == RuleOf(self, Val(NextIteration.matched).rule)

\* The operation the next step hands to _generateNextContextStack, if any.
NextOperation ==
    IF AtLineEnd THEN Some(ContextByName(self, Top(contextStack)).lineEndContext)
    ELSE IF NextMatches THEN NextRule.contextOperation
    ELSE None

\* C1: "#pop" applied to a stack of exactly one context (by a rule or by
\* lineEndContext) fails with an error: the step raises, and no empty or
\* one-element stack comes back.
C1_PopOnSingleContextFails ==
    [][(/\ pc = "scan"
        /\ Len(contextStack) = 1
        /\ NextOperation = Some(S_pop))
       => pc' = "raised"]_vars

\* The parse of the line is over and it was started with no previous stack.
DoneFromInitial == pc = "done" /\ IsNone(prevLineData)

\* The line was consumed by one match, at column 0, of a rule of the default
\* context that pushes a context whose lineEndContext is "#pop".
WholeLinePushOfPoppingContext ==
    /\ DoneFromInitial
    /\ Len(text) > 0
    /\ Len(matchedContexts) >= 1
    /\ matchedContexts[1].context = Val(self.defaultContext)
    /\ Len(matchedContexts[1].matchedRules) = 1
    /\ LET m == matchedContexts[1].matchedRules[1]
           op == RuleOf(self, m.rule).contextOperation
       IN  /\ m.pos = 0
           /\ m.length = Len(text)
           /\ ~IsNone(op)
           /\ HasContext(self, Val(op))
           /\ ContextByName(self, Val(op)).lineEndContext = S_pop

\* C2: when a rule of the default context matches the whole line and pushes a
\* context whose lineEndContext is "#pop", parseBlock returns [default].
C2_LineEndAfterSwitchAtEndOfLine ==
    WholeLinePushOfPoppingContext => lineData = <<Val(self.defaultContext)>>

\* C3: a match of length n at column c that leaves the stack equal moves the
\* scan column to exactly c + n, where the next match attempt is made.
C3_MatchAdvancesByItsLength ==
    [][(/\ NextMatches
        /\ IsNone(NextIteration.raised)
        /\ ~NextIteration.returns)
       => scanColumnIndex' = scanColumnIndex + Val(NextIteration.matched).length]_vars

\* C4: every iteration of the loop of parseBlock and of the loop of
\* _parseBlockWithContextStack advances the column by at least one character,
\* a match of an empty literal that switches the context included.
C4_EveryIterationAdvances ==
    [][/\ (pc = "scan" /\ pc' = "scan") => scanColumnIndex' > scanColumnIndex
       /\ (pc = "scan" /\ pc' = "parseBlock")
              => currentColumnIndex' > currentColumnIndex]_vars

\* C5: with casesensitive="0" or "false" and the list ["int", "float"], the
\* line "INT x" parsed from the initial stack records a match of the keyword
\* rule at column 0 with length 3.
C5_CaseInsensitiveKeyword ==
    (/\ DoneFromInitial
     /\ xml \in KeywordXml
     /\ xml.casesensitive \in {Some("0"), Some("false")}
     /\ text = S_INT_x)
    => /\ Len(matchedContexts) >= 1
       /\ Len(matchedContexts[1].matchedRules) >= 1
       /\ matchedContexts[1].matchedRules[1] =
             [rule |-> RuleRef(S_default, 1), pos |-> 0, length |-> 3]

\* The stack parseBlock started the line with.
InitialStack ==
    IF IsNone(prevLineData) THEN <<Val(self.defaultContext)>> ELSE Val(prevLineData)

\* The operation leaves the stack as it is, whatever its text.
NetsToEqual(stack, operation) ==
    LET g == GenerateNextContextStack(self, stack, operation)
    IN  ~HasRaised(g) /\ g.value = stack

\* The next step matches a rule whose operation nets to the current stack.
NextMatchNetsToEqual ==
    /\ NextMatches
    /\ ~IsNone(NextRule.contextOperation)
    /\ NetsToEqual(contextStack, Val(NextRule.contextOperation))

\* The syntax with the operation of one rule replaced by "#stay".
WithStay(syn, ref) ==
    [syn EXCEPT !.contexts =
        [k \in 1..Len(syn.contexts) |->
            IF syn.contexts[k].name = ref.context
            THEN [syn.contexts[k] EXCEPT
                     !.rules[ref.index].contextOperation = Some(S_stay)]
            ELSE syn.contexts[k]]]

\* No match of the first segment changed the stack the line started with.
FirstSegmentStays ==
    \A i \in 1..Len(matchedContexts[1].matchedRules) :
        LET op == RuleOf(self, matchedContexts[1].matchedRules[i].rule).contextOperation
        IN  IsNone(op) \/ NetsToEqual(InitialStack, Val(op))

\* The line was reported as one segment of the context it started in.
OneSegmentOfTheLine ==
    /\ Len(matchedContexts) = 1
    /\ matchedContexts[1].context = Top(InitialStack)
    /\ matchedContexts[1].length >= Len(text)

\* C6: a match whose operation nets to a stack equal to the current one
\* ("#stay", "", or another text such as "#pop" and the name of the top context)
\* does not end the scan: the step is the very step taken with "#stay" in its
\* place, the program stays in the same segment with the same stack, and a line
\* none of whose matches changes the stack is reported as one segment of the
\* context it started in.
C6_EqualStackContinuesScan ==
    [][/\ NextMatchNetsToEqual =>
            /\ NextIteration =
                  ScanIteration(WithStay(self, Val(NextIteration.matched).rule),
                                contextStack, scanColumnIndex, text)
            /\ pc' = "scan"
            /\ contextStack' = contextStack
            /\ matchedContexts' = matchedContexts
            /\ startColumnIndex' = startColumnIndex
            /\ matchedRules' = Append(matchedRules, Val(NextIteration.matched))
       /\ (pc' = "done" /\ Len(text') > 0 /\ FirstSegmentStays')
            => OneSegmentOfTheLine']_vars

\* C6 witness: a rule with the operation "#pop" + "default" has matched on the
\* stack [default] and the scan of the same segment goes on.
C6_Witness ==
    /\ pc = "scan"
    /\ contextStack = <<S_default>>
    /\ startColumnIndex = 0
    /\ matchedRules # <<>>
    /\ RuleOf(self, matchedRules[Len(matchedRules)].rule).contextOperation
          = Some(S_pop \o S_default)

\* Every match recorded so far, in the segments returned and in the scan under
\* way, with the rule it is a match of.
RecordedMatches ==
    {matchedRules[i] : i \in 1..Len(matchedRules)}
    \cup UNION {{matchedContexts[k].matchedRules[i] :
                    i \in 1..Len(matchedContexts[k].matchedRules)} :
                k \in 1..Len(matchedContexts)}

\* C7: a recorded match of a rule that declares a column k is at position k,
\* an absolute index in the line.
C7_ColumnRuleMatchesAtItsColumn ==
    pc \in {"parseBlock", "scan", "done"} =>
        \A m \in RecordedMatches :
            LET rule == RuleOf(self, m.rule)
            IN  ~IsNone(rule.column) => m.pos = Val(rule.column)

\* C7 witness: the second segment starts at column 1 and records, at position 1,
\* a match of a rule with column 1.
C7_Witness ==
    /\ pc = "done"
    /\ Len(matchedContexts) = 2
    /\ matchedContexts[1].length = 1
    /\ Len(matchedContexts[2].matchedRules) = 1
    /\ matchedContexts[2].matchedRules[1].pos = 1
    /\ RuleOf(self, matchedContexts[2].matchedRules[1].rule).column = Some(1)

\* C8: in the quote scenario the stack parseBlock returns is [default] when the
\* lines fed so far hold an even number of quotes and [default, string] when
\* they hold an odd number.
C8_QuoteParity ==
    (xml = QuoteXml /\ pc = "done") =>
        lineData = IF quotesSeen % 2 = 0 THEN <<S_default>>
                   ELSE <<S_default, S_string>>

\* C8 witness: the line `He said "hi" today` was parsed as a second line, after
\* a line with one quote.
C8_Witness ==
    /\ xml = QuoteXml
    /\ pc = "done"
    /\ lineNo = 2
    /\ text = S_quoteLine
    /\ quotesSeen = 3
    /\ prevLineData = Some(<<S_default, S_string>>)
    /\ lineData = <<S_default, S_string>>

\* The syntax without the rules of the classes declared with `pass`.
RECURSIVE WithoutPass(_)
WithoutPass(rules) ==
    IF rules = <<>> THEN <<>>
    ELSE IF rules[1].kind \in PassKinds THEN WithoutPass(Tail(rules))
    ELSE <<rules[1]>> \o WithoutPass(Tail(rules))
WithoutPassRules(syn) ==
    [syn EXCEPT !.contexts =
        [k \in 1..Len(syn.contexts) |->
            [syn.contexts[k] EXCEPT !.rules = WithoutPass(syn.contexts[k].rules)]]]

\* What an iteration does, whichever rule it was.
Outcome(it) ==
    [raised |-> it.raised, returns |-> it.returns,
     currentColumnIndex |-> it.currentColumnIndex,
     newContextStack |-> it.newContextStack,
     span |-> IF IsNone(it.matched) THEN None
              ELSE Some(<<Val(it.matched).pos, Val(it.matched).length>>)]

\* C9: a rule of a class declared with `pass` never matches and never fails:
\* a step in a context that holds one does what it does without the rule.
C9_PassRulesAreInert ==
    [][(/\ Scanning
        /\ \E i \in 1..Len(ContextByName(self, Top(contextStack)).rules) :
               ContextByName(self, Top(contextStack)).rules[i].kind \in PassKinds)
       => /\ raised' # Some("NameError")
          /\ Outcome(NextIteration) =
                Outcome(ScanIteration(WithoutPassRules(self), contextStack,
                                      scanColumnIndex, text))
          /\ NextMatches => NextRule.kind \notin PassKinds]_vars

\* C10: the stack parseBlock works on and the stack it returns are never empty.
C10_StackNeverEmpty ==
    /\ pc \in {"parseBlock", "scan", "done"} => contextStack # <<>>
    /\ pc = "done" => lineData # <<>>

DeclaredContexts(definition) ==
    {definition.contexts[j].name : j \in 1..Len(definition.contexts)}

\* The operation is the name of a context the definition does not declare.
NamesUnknownContext(operation) ==
    /\ operation # S_empty
    /\ operation # S_stay
    /\ ~StartsWith(operation, S_pop)
    /\ operation \notin DeclaredContexts(xml)

\* Some rule or some lineEndContext of the definition names a context that the
\* definition does not declare.
HasUnknownReference ==
    \E k \in 1..Len(xml.contexts) :
        \/ NamesUnknownContext(xml.contexts[k].lineEndContext)
        \/ \E i \in 1..Len(xml.contexts[k].rules) :
              LET op == xml.contexts[k].rules[i].contextOperation
              IN  ~IsNone(op) /\ NamesUnknownContext(Val(op))

\* C12: an operation that names a context absent from the syntax makes
\* parseBlock fail with a lookup error (KeyError) at the step that applies it,
\* whether a matching rule or the lineEndContext carries it: no stack is
\* returned and the caller's stack is as it was. Loading a definition with such
\* a reference does not fail, and no step that does not apply it raises the error.
C12_UnknownContextFailsWhenApplied ==
    [][/\ (/\ pc = "scan"
           /\ ~IsNone(NextOperation)
           /\ NamesUnknownContext(Val(NextOperation)))
          => /\ pc' = "raised"
             /\ raised' = Some("KeyError")
             /\ lineData' = lineData
             /\ prevLineData' = prevLineData
       /\ (pc = "new" /\ HasUnknownReference) => pc' = "idle"
       /\ (raised' = Some("KeyError") /\ raised # raised')
          => /\ pc = "scan"
             /\ ~IsNone(NextOperation)
             /\ NamesUnknownContext(Val(NextOperation))]_vars

\* C12 witness: a second line, started from the two-context stack the first line
\* returned, has failed with KeyError and the stack passed in is as it was.
C12_Witness ==
    /\ pc = "raised"
    /\ raised = Some("KeyError")
    /\ lineNo = 2
    /\ prevLineData = Some(lineData)
    /\ Len(lineData) = 2

\* The matches recorded for the line in hand: those of the segments returned and,
\* inside _parseBlockWithContextStack, those of the scan under way.
MatchesOfTheLine ==
    UNION {{matchedContexts[k].matchedRules[i] :
                i \in 1..Len(matchedContexts[k].matchedRules)} :
           k \in 1..Len(matchedContexts)}
    \cup (IF pc = "scan" THEN {matchedRules[i] : i \in 1..Len(matchedRules)} ELSE {})

\* Rule number j of the context is not skipped at the column and its tryMatch on
\* the rest of the line gives a count.
MatchesAt(contextName, j, pos) ==
    LET rule == ContextByName(self, contextName).rules[j]
        r == TryMatch(self, rule, Slice(text, pos))
    IN  /\ IsNone(rule.column) \/ Val(rule.column) = pos
        /\ ~HasRaised(r)
        /\ ~IsNone(r.value)

\* The count tryMatch of rule number j gives on the rest of the line at pos.
CountAt(contextName, j, pos) ==
    Val(TryMatch(self, ContextByName(self, contextName).rules[j], Slice(text, pos)).value)

\* C13: a recorded match is a match of the first rule, in the declaration order
\* of its context, that is eligible at the column and matches there: the rule
\* matches with the recorded length, no rule declared before it does, and no
\* other rule of the context is recorded at that column, a longer match of a
\* later rule included.
C13_FirstMatchWins ==
    pc \in {"parseBlock", "scan", "done"} =>
        \A m \in MatchesOfTheLine :
            /\ MatchesAt(m.rule.context, m.rule.index, m.pos)
            /\ CountAt(m.rule.context, m.rule.index, m.pos) = m.length
            /\ \A j \in 1..(m.rule.index - 1) :
                  LET rule == ContextByName(self, m.rule.context).rules[j]
                  IN  \/ ~IsNone(rule.column) /\ Val(rule.column) # m.pos
                      \/ TryMatch(self, rule, Slice(text, m.pos)) = Returned(None)
            /\ \A n \in MatchesOfTheLine :
                  (n.rule.context = m.rule.context /\ n.pos = m.pos)
                      => n.rule.index = m.rule.index

\* C13 witness: the first rule of the context is recorded with length 1 at a
\* column where the second rule of the context matches two characters.
C13_Witness ==
    /\ pc = "done"
    /\ \E m \in MatchesOfTheLine :
          /\ m.rule.index = 1
          /\ m.length = 1
          /\ Len(ContextByName(self, m.rule.context).rules) = 2
          /\ MatchesAt(m.rule.context, 2, m.pos)
          /\ CountAt(m.rule.context, 2, m.pos) = 2

\* The next step is an iteration of the scan in a context whose only rule is a
\* keyword rule.
NextTriesKeyword ==
    /\ Scanning
    /\ LET rules == ContextByName(self, Top(contextStack)).rules
       IN  Len(rules) = 1 /\ rules[1].kind = "keyword"

\* The words of the list of that keyword rule, and the numbers of those that the
\* rest of the line starts with.
NextWords == self.lists[ContextByName(self, Top(contextStack)).rules[1].string]
NextPrefixes ==
    {i \in 1..Len(NextWords) : StartsWith(Slice(text, scanColumnIndex), NextWords[i])}

\* C14: at a column where a keyword rule is tried, the match recorded has the
\* length of the first entry of the list, in list order, that the rest of the
\* line starts with, whatever follows it and whatever longer entry comes later
\* in the list; nothing is recorded when no entry is a prefix.
C14_KeywordListOrder ==
    [][NextTriesKeyword =>
          IF NextPrefixes = {}
          THEN matchedRules' = matchedRules
          ELSE LET first == CHOOSE i \in NextPrefixes : \A j \in NextPrefixes : i <= j
               IN  matchedRules' =
                      Append(matchedRules,
                             [rule |-> RuleRef(Top(contextStack), 1),
                              pos |-> scanColumnIndex,
                              length |-> Len(NextWords[first])])]_vars

\* C14 witness: with the list ["in", "int"], the line "intx" was parsed and the
\* match recorded at column 0 has length 2.
C14_Witness ==
    /\ pc = "done"
    /\ self.lists = [n \in {S_kw} |-> <<S_in, S_int>>]
    /\ text = S_intx
    /\ Len(matchedContexts) = 1
    /\ Len(matchedContexts[1].matchedRules) >= 1
    /\ matchedContexts[1].matchedRules[1].pos = 0
    /\ matchedContexts[1].matchedRules[1].length = 2

\* A step of a parseBlock call leaves the list passed as prevLineData as it was,
\* and a push or a pop applied to that list gives the parser another stack.
StepKeepsCallersList ==
    pc \in {"parseBlock", "scan"} =>
        /\ prevLineData' = prevLineData
        /\ (/\ HoldsCallersList
            /\ ~IsNone(NextOperation)
            /\ pc' = "parseBlock"
            /\ Val(NextOperation) \in {S_string, S_default, S_pop})
           => contextStack' # Val(prevLineData)

NextTriesInsensitiveRegExpr ==
    /\ Scanning
    /\ LET rules == ContextByName(self, Top(contextStack)).rules
       IN  /\ Len(rules) = 1
           /\ rules[1].kind = "RegExpr"
           /\ rules[1].insensitive \in {Some("true"), Some("1")}
           /\ rules[1].string = Lower(rules[1].string)
           /\ LET rest == Slice(text, scanColumnIndex)
                  n == Len(rules[1].string)
              IN  /\ n <= Len(rest)
                  /\ \A i \in 1..n :
                        /\ rest[i] # rules[1].string[i]
                        /\ LowerChar(rest[i]) = rules[1].string[i]

\* C16: a RegExpr rule declared with the insensitive flag, whose pattern is a
\* plain lowercase literal, matches at a column where the rest of the line
\* starts with the same letters in upper case: the match is recorded with the
\* length of the literal.
C16_InsensitiveRegExprMatches ==
    [][NextTriesInsensitiveRegExpr =>
          matchedRules' =
             Append(matchedRules,
                    [rule |-> RuleRef(Top(contextStack), 1),
                     pos |-> scanColumnIndex,
                     length |-> Len(ContextByName(self, Top(contextStack)).rules[1].string)])]_vars

\* parseBlock has returned for the line `He said "hi" today` of the quote
\* scenario, parsed from the initial stack.
QuoteLineDone ==
    /\ pc = "done"
    /\ xml = QuoteXml
    /\ text = S_quoteLine
    /\ IsNone(prevLineData)

\* The contexts and the lengths of the segments returned.
SegmentContexts == [k \in 1..Len(matchedContexts) |-> matchedContexts[k].context]
SegmentLengths == [k \in 1..Len(matchedContexts) |-> matchedContexts[k].length]

\* C17 as stated: the segments of the line are default with 8 characters,
\* string with 4 (both quotes and `hi`) and default with 6.
C17_OpeningQuoteInStringSegment ==
    QuoteLineDone =>
        /\ SegmentContexts = <<S_default, S_string, S_default>>
        /\ SegmentLengths = <<8, 4, 6>>

\* C17, amended: the segments of the line are default with 9 characters (`He
\* said ` and the opening quote, whose match at position 8 is recorded in it),
\* string with 3 (`hi` and the closing quote, matched at position 11) and
\* default with 6 (` today`, without a match); the stack returned is [default].
C17_OpeningQuoteInDefaultSegment ==
    QuoteLineDone =>
        /\ SegmentContexts = <<S_default, S_string, S_default>>
        /\ SegmentLengths = <<9, 3, 6>>
        /\ matchedContexts[1].matchedRules =
              <<[rule |-> RuleRef(S_default, 1), pos |-> 8, length |-> 1]>>
        /\ matchedContexts[2].matchedRules =
              <<[rule |-> RuleRef(S_string, 1), pos |-> 11, length |-> 1]>>
        /\ matchedContexts[3].matchedRules = <<>>
        /\ lineData = <<S_default>>

\* C17 witness: the line was parsed in three segments.
C17_Witness == QuoteLineDone /\ Len(matchedContexts) = 3

\* stack[:n] for 0 <= n, and the stack without its n topmost contexts.
FirstN(stack, n) == SubSeq(stack, 1, IF n < Len(stack) THEN n ELSE Len(stack))
WithoutTop(stack, n) == FirstN(stack, IF Len(stack) >= n THEN Len(stack) - n ELSE 0)

\* The stack after "#pop" was applied to it twice, one application after the other.
PoppedTwice(stack) ==
    GenerateNextContextStack(
        self, GenerateNextContextStack(self, stack, S_pop).value, S_pop).value

\* The step applies an operation that starts with "#pop" and does not raise:
\* the stack of the parser after it is the stack before it without as many top
\* contexts as the operation has "#pop"s, with the context named after them, if
\* one is, on top.
StepAppliesCompoundPop ==
    (/\ pc = "scan"
     /\ ~IsNone(NextOperation)
     /\ StartsWith(Val(NextOperation), S_pop)
     /\ pc' # "raised")
    => LET op == Val(NextOperation)
       IN  /\ op = S_pop => contextStack' = WithoutTop(contextStack, 1)
           /\ op = S_pop \o S_pop =>
                 /\ contextStack' = WithoutTop(contextStack, 2)
                 /\ contextStack' = PoppedTwice(contextStack)
           /\ op = S_pop \o S_default =>
                 contextStack' = Append(WithoutTop(contextStack, 1), S_default)
           /\ op = S_pop \o S_string =>
                 contextStack' = Append(WithoutTop(contextStack, 1), S_string)
           /\ op = S_pop \o S_pop \o S_string =>
                 contextStack' = Append(WithoutTop(contextStack, 2), S_string)
           /\ op \in {S_pop, S_pop \o S_pop, S_pop \o S_default, S_pop \o S_string,
                      S_pop \o S_pop \o S_string}

\* C18: "#pop#pop" applied to a stack of three or more contexts gives what "#pop"
\* applied twice gives, the stack without its two topmost contexts and the rest
\* in order; "#pop" followed by a remainder gives what the remainder gives on
\* the stack without its top, so that "#pop" followed by a context name puts the
\* named context in the place of the top one.
C18_CompoundPop == [][StepAppliesCompoundPop]_vars

\* C18 witness: the line "aab" of the compound-pop scenario, parsed from the
\* initial stack, pushed "string" twice and then matched the rule that carries
\* "#pop#pop" on the stack of three, and parseBlock returned [default].
C18_Witness ==
    /\ pc = "done"
    /\ IsNone(prevLineData)
    /\ text = <<"a", "a", "b">>
    /\ Len(matchedContexts) = 3
    /\ Len(matchedContexts[3].matchedRules) = 1
    /\ RuleOf(self, matchedContexts[3].matchedRules[1].rule).contextOperation
          = Some(S_pop \o S_pop)
    /\ lineData = <<S_default>>

RECURSIVE SumOf(_)
SumOf(lengths) ==
    IF lengths = <<>> THEN 0 ELSE lengths[1] + SumOf(Tail(lengths))

\* The matches of the segments returned, in the order they were recorded.
RECURSIVE MatchesInOrder(_)
MatchesInOrder(segments) ==
    IF segments = <<>> THEN <<>>
    ELSE segments[1].matchedRules \o MatchesInOrder(Tail(segments))

\* C19: when parseBlock returns, the lengths of the segments add up to
\* len(text), every segment has a length of at least 1, every recorded match
\* lies within the line, and the matches are in strictly increasing position
\* order without overlap.
C19_SegmentsTileTheLine ==
    pc = "done" =>
        /\ SumOf(SegmentLengths) = Len(text)
        /\ \A k \in 1..Len(matchedContexts) : matchedContexts[k].length >= 1
        /\ LET ms == MatchesInOrder(matchedContexts)
           IN  /\ \A i \in 1..Len(ms) :
                     0 <= ms[i].pos /\ ms[i].pos + ms[i].length <= Len(text)
               /\ \A i \in 1..(Len(ms) - 1) :
                     /\ ms[i].pos < ms[i + 1].pos
                     /\ ms[i].pos + ms[i].length <= ms[i + 1].pos

\* parseBlock returns what it was handed: no segment and the stack it started from.
ReturnedAsStarted ==
    /\ matchedContexts = <<>>
    /\ lineData = IF IsNone(prevLineData) THEN <<xml.contexts[1].name>>
                  ELSE Val(prevLineData)

\* C20: parseBlock on an empty text returns no segment and the stack passed in,
\* or [defaultContext], the first context declared, when none is passed in; no
\* lineEndContext is applied, that of a context with lineEndContext "#pop"
\* included.
C20_EmptyLineIsNoOp ==
    (pc = "done" /\ text = <<>>) => ReturnedAsStarted

\* C20 witness: an empty second line was parsed from the stack [default,
\* string], where the lineEndContext of "string" is "#pop", and the stack came back.
C20_Witness ==
    /\ pc = "done"
    /\ text = <<>>
    /\ lineNo = 2
    /\ prevLineData = Some(<<S_default, S_string>>)
    /\ ContextByName(self, S_string).lineEndContext = S_pop
    /\ lineData = <<S_default, S_string>>

====
